---------------------------- MODULE Spec2Model ----------------------------
(***************************************************************************)
(* A model of the CO2 / cost reduction calculator for energy flexibility   *)
(* measures (auxiliary_calculation.py, calculate_reduction_potential.py).  *)
(*                                                                         *)
(* Representation.                                                         *)
(*  - Durations are integers counted in time units; Quarter time units     *)
(*    make 0.25 h, so a duration d [h] of the source is d * 4 * Quarter    *)
(*    units and "x % 0.25" is "x % Quarter".                               *)
(*  - 'power' is an exact rational [num, den] (the source divides it).     *)
(*  - The series of prices and emission factors is a function on           *)
(*    0 .. N-1, the index of the pandas data frame.                        *)
(*  - Field names of the source's dicts / data frames keep their names     *)
(*    with blanks, dots and dashes replaced by underscores.                *)
(***************************************************************************)
EXTENDS Integers, Sequences, FiniteSets, TLC

VARIABLES
    pc,              \* position of the modelled run
    row,             \* check_and_adapt_dsm: the dict handed in by add_row
    checked_row,     \* check_and_adapt_dsm: the dict it returned
    rechecked_row,   \* check_and_adapt_dsm applied to checked_row
    measure,         \* calc_blocks: the case of a flexibility measure
    df_price_emf,    \* the quarter-hourly series (shared data frame)
    avg_price_emf,   \* the tuple (average price, annual emission factor)
    df_blocks,       \* calc_blocks: the blocks returned by max_in_block
    blocks,          \* calc_annual_potential: the blocks handed in
    max_co2,         \* flag: the emission objective is requested
    max_cost,        \* flag: the cost objective is requested
    annual,          \* calc_annual_potential: the row returned, by frequency
    df_dsm_arg,      \* calc_reduction_potential: the frame the caller passes
    df_dsm,          \* calc_reduction_potential: its local name df_dsm
    combo,           \* flag: combinations are calculated
    final_results,   \* calc_reduction_potential: the result rows
    idx,             \* position of the running loop (1 = first row)
    blocks_lr,       \* calc_measure_combo: blocks of the load reduction
    blocks_li,       \* calc_measure_combo: blocks of the load increase
    blocks_combo     \* calc_measure_combo: blocks of the combination

normVars == <<row, checked_row, rechecked_row>>
blockVars == <<measure, df_blocks>>
seriesVars == <<df_price_emf, avg_price_emf>>
flagVars == <<max_co2, max_cost>>
annualVars == <<blocks, annual>>
comboVars == <<blocks_lr, blocks_li, blocks_combo>>
runVars == <<df_dsm_arg, df_dsm, combo, final_results, idx>>
vars == <<pc, normVars, blockVars, seriesVars, flagVars, annualVars,
          comboVars, runVars>>

\* Value of a variable a specification does not use.
NotUsed == "-"

(***************************************************************************)
(* Bounds of the model                                                     *)
(***************************************************************************)
\* Time units per quarter of an hour (resolution of raw durations).
Quarter == 5
\* Largest raw duration field, in time units.
MaxDur == 11
\* Largest number of quarter-hours of the series.
MaxN == 4
\* Largest number of blocks handed to calc_annual_potential on its own.
MaxBlocks == 3
\* Largest retrieval frequency handed to calc_annual_potential on its own.
MaxFrequency == 3
\* Number of frequencies one block sequence is aggregated for.
MaxRuns == 2
\* Largest number of rows of df_dsm in a run of calc_reduction_potential.
MaxMeasures == 2
\* Largest number of quarter-hours of the series in such a run.
MaxRunN == 2

(***************************************************************************)
(* Program constants                                                       *)
(***************************************************************************)
\* Hours of a year, the plausibility limit of duration * retrieval frequency.
HoursPerYear == 8760

UnitsPerHour == 4 * Quarter

(***************************************************************************)
(* Exact rationals for 'power'                                             *)
(***************************************************************************)
RECURSIVE GCD(_, _)
GCD(a, b) == IF b = 0 THEN a ELSE GCD(b, a % b)

\* Mutant of ScalePower: the adapted retrieval duration is the numerator as
\* well, power * rd / rd.
ScalePowerByAdapted(power, numerator, denominator) == power

\* power * numerator / denominator, as a reduced fraction (denominator > 0).
ScalePower(power, numerator, denominator) ==
    LET n == power.num * numerator
        d == power.den * denominator
        g == GCD(n, d)
    IN  IF n = 0 THEN [num |-> 0, den |-> 1]
        ELSE [num |-> n \div g, den |-> d \div g]

(***************************************************************************)
(* auxiliary_calculation.py                                                *)
(***************************************************************************)
\* fillna_dict: every NaN value is replaced by 0. row.nan is the set of keys
\* whose value is NaN.
fillna_dict(dictionary) ==
    [dictionary EXCEPT
        !.power = IF "power" \in dictionary.nan THEN [num |-> 0, den |-> 1] ELSE @,
        !.retrieval_duration = IF "retrieval_duration" \in dictionary.nan THEN 0 ELSE @,
        !.catch_up_time = IF "catch_up_time" \in dictionary.nan THEN 0 ELSE @,
        !.activation_duration = IF "activation_duration" \in dictionary.nan THEN 0 ELSE @,
        !.nan = {}]

\* x rounded up to the next multiple of 0.25 h, if it is not one.
RoundUpQuarter(x) ==
    IF x % Quarter # 0 THEN x + (Quarter - (x % Quarter)) ELSE x

\* What a call returns when it raises: power * row['retrieval duration'] / rd
\* with rd = 0.
ZeroDivisionError == [raised |-> "ZeroDivisionError"]

Raised(result) == "raised" \in DOMAIN result

\* The value stored in row['activation duration'] on return. Line 153 of the
\* source is the bare expression row['activation duration']: nothing is
\* assigned, the adapted local ad is dropped.
StoredActivationDuration(filled, ad) == filled.activation_duration

check_and_adapt_dsm(row_in) ==
    LET filled == fillna_dict(row_in)
        rd0 == filled.retrieval_duration
        ct0 == filled.catch_up_time
        ad0 == filled.activation_duration
        rf0 == filled.retrieval_frequency
        duration0 == rd0 + ct0 + ad0
        short == duration0 <= Quarter
        offgrid == (rd0 % Quarter) + (ct0 % Quarter) + (ad0 % Quarter) # 0
        rd == IF short THEN Quarter
              ELSE IF offgrid THEN RoundUpQuarter(rd0) ELSE rd0
        ct == IF short THEN 0
              ELSE IF offgrid THEN RoundUpQuarter(ct0) ELSE ct0
        ad == IF short THEN 0
              ELSE IF offgrid THEN RoundUpQuarter(ad0) ELSE ad0
        duration == rd + ct + ad
        year == HoursPerYear * UnitsPerHour
        rf == IF duration * rf0 > year THEN year \div duration ELSE rf0
    IN  IF rd = 0 THEN ZeroDivisionError
        ELSE [filled EXCEPT
                !.retrieval_duration = rd,
                !.catch_up_time = ct,
                !.activation_duration = StoredActivationDuration(filled, ad),
                !.power = ScalePower(filled.power, rd0, rd),
                !.retrieval_frequency = rf]

(***************************************************************************)
(* Inputs of the normalization                                             *)
(***************************************************************************)
RawPowers == {[num |-> 0, den |-> 1], [num |-> 4000, den |-> 1]}

RawFrequencies ==
    {0, 1, 3, HoursPerYear, 2 * HoursPerYear, 4 * HoursPerYear, 100000}

\* Which fields are missing (NaN) in the raw row.
RawMissing == {{}, {"activation_duration"}, {"retrieval_duration"},
               {"retrieval_duration", "catch_up_time", "activation_duration"}}

\* new_row of add_row: the case of a measure before it is checked.
RawRows ==
    { [TP |-> "TP1", name |-> "m", scope |-> "potential",
       maximization |-> "power", load_change |-> "load increase",
       power |-> p, retrieval_duration |-> rd, catch_up_time |-> ct,
       activation_duration |-> ad, retrieval_frequency |-> rf, nan |-> nan] :
        p \in RawPowers, rd \in 0 .. MaxDur, ct \in 0 .. MaxDur,
        ad \in 0 .. MaxDur, rf \in RawFrequencies, nan \in RawMissing }

(***************************************************************************)
(* SpecNorm: add_row checks a raw row; the checked row is checked again.   *)
(***************************************************************************)
InitNorm ==
    /\ pc = "raw"
    /\ row \in RawRows
    /\ checked_row = NotUsed
    /\ rechecked_row = NotUsed
    /\ measure = NotUsed /\ df_blocks = NotUsed
    /\ df_price_emf = NotUsed /\ avg_price_emf = NotUsed
    /\ max_co2 = NotUsed /\ max_cost = NotUsed
    /\ blocks = NotUsed /\ annual = NotUsed
    /\ df_dsm_arg = NotUsed
    /\ df_dsm = NotUsed /\ combo = NotUsed /\ final_results = NotUsed
    /\ idx = NotUsed /\ blocks_lr = NotUsed /\ blocks_li = NotUsed
    /\ blocks_combo = NotUsed

\* add_row, line 78: checked_row = check_and_adapt_dsm(new_row)
Check ==
    /\ pc = "raw"
    /\ checked_row' = check_and_adapt_dsm(row)
    /\ pc' = "checked"
    /\ UNCHANGED <<row, rechecked_row, blockVars, seriesVars, flagVars, annualVars,
                 comboVars, runVars>>

\* check_and_adapt_dsm applied to a row it returned.
Recheck ==
    /\ pc = "checked"
    /\ ~Raised(checked_row)
    /\ rechecked_row' = check_and_adapt_dsm(checked_row)
    /\ pc' = "rechecked"
    /\ UNCHANGED <<row, checked_row, blockVars, seriesVars, flagVars, annualVars,
                 comboVars, runVars>>

NextNorm == Check \/ Recheck

SpecNorm == InitNorm /\ [][NextNorm]_vars


(***************************************************************************)
(* calculate_reduction_potential.py: reductions per quarter-hour, blocks   *)
(***************************************************************************)
\* len(df): the data frames are functions on 0 .. len-1.
Length(df) == Cardinality(DOMAIN df)

\* A duration [h] times 4: its number of quarter-hours (rd*4, length*4).
\* int() of it for a duration off the grid.
QuarterHours(duration) == (duration * 4) \div UnitsPerHour

\* calc_load_change: the quarter-hourly load change [MWh] of a power [kW],
\* negative for a load reduction.
calc_load_change(m) ==
    LET load_change == ((m.power.num \div m.power.den) \div 1000) \div 4
    IN  IF m.load_change = "load reduction" THEN load_change * (-1)
        ELSE load_change

\* calc_rc_length: the length of one retrieval cycle.
calc_rc_length(m) ==
    m.retrieval_duration + m.catch_up_time + m.activation_duration

\* (load_change * df.loc[first:last, column]).sum(): .loc slices by label,
\* both ends included, and silently ends at the last row of the frame.
RECURSIVE LocSum(_, _, _, _, _)
LocSum(df, column, load_change, first, last) ==
    IF first > last \/ first \notin DOMAIN df THEN 0
    ELSE load_change * df[first][column]
            + LocSum(df, column, load_change, first + 1, last)

\* Mutant of block_reduction: the slice ends before last_index, as a
\* positional slice would.
block_reduction_exclusive(t, column, df, load_change, avg, rd) ==
    LET last_index == t + QuarterHours(rd) - 1
        i == IF column = "emf" THEN 1 ELSE 0
    IN  IF last_index > Length(df) THEN 0
        ELSE (-1) * LocSum(df, column, load_change, t, last_index - 1)
                + (load_change * avg[i + 1] * QuarterHours(rd))

\* block_reduction for the row with index t (row.name).
block_reduction(t, column, df, load_change, avg, rd) ==
    LET last_index == t + QuarterHours(rd) - 1
        i == IF column = "emf" THEN 1 ELSE 0
    IN  IF last_index > Length(df) THEN 0
        ELSE (-1) * LocSum(df, column, load_change, t, last_index)
                + (load_change * avg[i + 1] * QuarterHours(rd))

\* Mutant of blocks_quarter_hour: the reductions are added to the reduction
\* columns the frame already holds.
blocks_quarter_hour_added(df, avg, load_change, rd) ==
    [t \in DOMAIN df |->
        LET held == "emission_reduction" \in DOMAIN df[t]
        IN  [price |-> df[t].price,
             emf |-> df[t].emf,
             emission_reduction |->
                 (IF held THEN df[t].emission_reduction ELSE 0)
                    + block_reduction(t, "emf", df, load_change, avg, rd),
             price_reduction |->
                 (IF held THEN df[t].price_reduction ELSE 0)
                    + block_reduction(t, "price", df, load_change, avg, rd)]]

\* blocks_quarter_hour: the two reduction columns are written into the
\* frame handed in.
blocks_quarter_hour(df, avg, load_change, rd) ==
    [t \in DOMAIN df |->
        [price |-> df[t].price,
         emf |-> df[t].emf,
         emission_reduction |->
             block_reduction(t, "emf", df, load_change, avg, rd),
         price_reduction |->
             block_reduction(t, "price", df, load_change, avg, rd)]]

\* df.loc[first:last, column].idxmax(): the first index of the slice that
\* holds its maximum.
idxmax(df, column, first, last) ==
    LET slice == {t \in DOMAIN df : first <= t /\ t <= last}
        top == {t \in slice : \A u \in slice : df[u][column] <= df[t][column]}
    IN  CHOOSE t \in top : \A u \in top : t <= u

\* Mutant of BlockAt: the associated value is read at the index of its own
\* maximum, not at the index of the other objective's maximum.
BlockAtOwnIndex(df, index, block) ==
    LET max_indices ==
            <<idxmax(df, "emission_reduction", index, index + block - 1),
              idxmax(df, "price_reduction", index, index + block - 1)>>
    IN  [max_emission |-> df[max_indices[1]].emission_reduction,
         ass_cost |-> df[max_indices[2]].price_reduction,
         max_cost |-> df[max_indices[2]].price_reduction,
         ass_emission |-> df[max_indices[1]].emission_reduction]

\* One row of df_blocks: the block that starts at index.
BlockAt(df, index, block) ==
    LET max_indices ==
            <<idxmax(df, "emission_reduction", index, index + block - 1),
              idxmax(df, "price_reduction", index, index + block - 1)>>
    IN  [max_emission |-> df[max_indices[1]].emission_reduction,
         ass_cost |-> df[max_indices[1]].price_reduction,
         max_cost |-> df[max_indices[2]].price_reduction,
         ass_emission |-> df[max_indices[2]].emission_reduction]

\* range(0, len(df), step) with step 0.
ValueError == [raised |-> "ValueError"]

\* len(range(0, n, block)): the number of passes of the loop of
\* max_in_block over a frame of n rows.
range_len(n, block) == (n + block - 1) \div block

\* max_in_block: df_blocks, indexed 0, 1, ... in the order of the loop.
max_in_block(df, length) ==
    LET block == QuarterHours(length)
    IN  IF block = 0 THEN ValueError
        ELSE LET count == range_len(Length(df), block)
             IN  [j \in 0 .. count - 1 |-> BlockAt(df, j * block, block)]

\* calc_blocks: the frame as blocks_quarter_hour leaves it, and the blocks.
calc_blocks(m, df, avg) ==
    LET load_change == calc_load_change(m)
        length == calc_rc_length(m)
        df_reductions ==
            blocks_quarter_hour(df, avg, load_change, m.retrieval_duration)
    IN  [df |-> df_reductions, blocks |-> max_in_block(df_reductions, length)]

(***************************************************************************)
(* Inputs of the calculation                                               *)
(***************************************************************************)
\* (price, emission factor) of a quarter-hour: below, at and above the
\* average, together and apart.
SeriesRows ==
    { [price |-> 0, emf |-> 3], [price |-> 3, emf |-> 0],
      [price |-> 3, emf |-> 3], [price |-> 1, emf |-> 2],
      [price |-> 1, emf |-> 0], [price |-> 0, emf |-> 2] }

\* (average price, annual emission factor), as read_avg_price_and_emf
\* returns it.
AverageReferences == {<<1, 2>>}

\* The series as read_price_and_emf returns it: columns price and emf.
SeriesOfLength(n) == [0 .. n - 1 -> SeriesRows]

\* Raw durations of the measures that are calculated: off the grid, one
\* quarter-hour, two quarter-hours.
CaseDurations == {0, 1, Quarter, 2 * Quarter}

CaseFrequencies == {0, 1, 2, 3}

\* Raw rows of the measures that are calculated. The raw power is such that
\* the checked power is a whole number of MWh per quarter-hour.
CaseRows(load_changes, frequencies) ==
    { [TP |-> "TP1", name |-> "m", scope |-> "potential",
       maximization |-> "power", load_change |-> lc,
       power |-> [num |-> 4000 * Quarter, den |-> 1],
       retrieval_duration |-> rd, catch_up_time |-> ct,
       activation_duration |-> ad, retrieval_frequency |-> rf, nan |-> {}] :
        lc \in load_changes, rd \in CaseDurations \ {0},
        ct \in {0, Quarter}, ad \in CaseDurations \ {2 * Quarter},
        rf \in frequencies }

\* The rows of df_dsm: read_and_adapt_dsm appends what check_and_adapt_dsm
\* returns.
Cases(load_changes, frequencies) ==
    { check_and_adapt_dsm(r) : r \in CaseRows(load_changes, frequencies) }

(***************************************************************************)
(* SpecBlocks: calc_blocks for one case on one series.                     *)
(***************************************************************************)
InitBlocks ==
    /\ pc = "start"
    /\ measure \in Cases({"load increase", "load reduction"}, {1})
    /\ \E n \in 1 .. MaxN : df_price_emf \in SeriesOfLength(n)
    /\ avg_price_emf \in AverageReferences
    /\ df_blocks = NotUsed
    /\ row = NotUsed /\ checked_row = NotUsed /\ rechecked_row = NotUsed
    /\ max_co2 = NotUsed /\ max_cost = NotUsed
    /\ blocks = NotUsed /\ annual = NotUsed
    /\ df_dsm_arg = NotUsed
    /\ df_dsm = NotUsed /\ combo = NotUsed /\ final_results = NotUsed
    /\ idx = NotUsed /\ blocks_lr = NotUsed /\ blocks_li = NotUsed
    /\ blocks_combo = NotUsed

\* calc_blocks(measure, df_price_emf, avg_price_emf)
CalcBlocks ==
    /\ pc = "start"
    /\ LET result == calc_blocks(measure, df_price_emf, avg_price_emf)
       IN  /\ df_price_emf' = result.df
           /\ df_blocks' = result.blocks
    /\ pc' = "blocks"
    /\ UNCHANGED <<measure, avg_price_emf, normVars, flagVars, annualVars,
                   comboVars, runVars>>

NextBlocks == CalcBlocks

SpecBlocks == InitBlocks /\ [][NextBlocks]_vars

(***************************************************************************)
(* calculate_reduction_potential.py: the annual potential                  *)
(***************************************************************************)
\* A result field that holds the string 'NaN', and one that holds a number.
NaN == [marker |-> "NaN"]

Number(v) == [value |-> v]

Min(a, b) == IF a <= b THEN a ELSE b

\* The orders of the row labels in S.
Orders(S) ==
    LET n == Cardinality(S)
    IN  {order \in [1 .. n -> S] :
            \A a, b \in 1 .. n : a # b => order[a] # order[b]}

\* Mutant of sort_values: ascending order (the default of pandas).
sort_values_ascending(df, by) ==
    {order \in Orders(DOMAIN df) :
        \A a, b \in 1 .. Len(order) :
            a < b => df[order[a]][by] <= df[order[b]][by]}

\* df.sort_values(by=by, ascending=False): the row labels by descending
\* value. The sort is quicksort, which is not stable: rows with equal values
\* come in any order.
sort_values(df, by) ==
    {order \in Orders(DOMAIN df) :
        \A a, b \in 1 .. Len(order) :
            a < b => df[order[a]][by] >= df[order[b]][by]}

\* .head(n): the first n rows.
head(order, n) == SubSeq(order, 1, Min(n, Len(order)))

\* Mutant of KeepPositive: no row is dropped.
KeepAll(df, order, by) == order

\* k_max[k_max[by] > 0]: the rows with a positive reduction.
KeepPositive(df, order, by) ==
    SelectSeq(order, LAMBDA j : df[j][by] > 0)

\* .sum(axis=0) of one column; 0 for no rows.
RECURSIVE SumColumn(_, _, _)
SumColumn(df, order, column) ==
    IF order = <<>> THEN 0
    ELSE df[Head(order)][column] + SumColumn(df, Tail(order), column)

\* Sort by one objective, take the first k rows, keep the positive ones, sum
\* the objective and its associated column: every pair of sums the sort can
\* lead to.
AnnualSums(df, by, associated, k) ==
    { LET kept == KeepPositive(df, head(order, k), by)
      IN  <<Number(SumColumn(df, kept, by)),
            Number(SumColumn(df, kept, associated))>> :
        order \in sort_values(df, by) }

\* Mutant of NotComputed: the pair starts as zeros.
NotComputedZero == <<Number(0), Number(0)>>

\* reduction_emission and reduction_cost when the objective is not asked for.
NotComputed == <<NaN, NaN>>

\* calc_annual_potential: the rows it can return.
calc_annual_potential(m, blocks_in, co2, cost) ==
    { [TP |-> m.TP, name |-> m.name, scope |-> m.scope,
       maximization |-> m.maximization, load_change |-> m.load_change,
       max_emission |-> reduction_emission[1],
       ass_cost |-> reduction_emission[2],
       max_cost |-> reduction_cost[1],
       ass_emission |-> reduction_cost[2]] :
        reduction_emission \in
            (IF co2
             THEN AnnualSums(blocks_in, "max_emission", "ass_cost",
                             m.retrieval_frequency)
             ELSE {NotComputed}),
        reduction_cost \in
            (IF cost
             THEN AnnualSums(blocks_in, "max_cost", "ass_emission",
                             m.retrieval_frequency)
             ELSE {NotComputed}) }

(***************************************************************************)
(* SpecAnnual: calc_annual_potential for one block sequence and several    *)
(* retrieval frequencies.                                                  *)
(***************************************************************************)
\* Blocks: equal maxima with different associated values, a maximum of 0 and
\* a negative one.
AnnualBlocks ==
    { [max_emission |-> 2, ass_cost |-> 1, max_cost |-> 1, ass_emission |-> 2],
      [max_emission |-> 2, ass_cost |-> -1, max_cost |-> 1, ass_emission |-> -1],
      [max_emission |-> 3, ass_cost |-> 0, max_cost |-> 0, ass_emission |-> 0],
      [max_emission |-> 0, ass_cost |-> -1, max_cost |-> 0, ass_emission |-> -1],
      [max_emission |-> -1, ass_cost |-> -1, max_cost |-> -1, ass_emission |-> -1] }

AnnualMeasure(k) ==
    [TP |-> "TP1", name |-> "m", scope |-> "potential",
     maximization |-> "power", load_change |-> "load increase",
     retrieval_frequency |-> k]

InitAnnual ==
    /\ pc = "start"
    /\ \E n \in 0 .. MaxBlocks : blocks \in [0 .. n - 1 -> AnnualBlocks]
    /\ max_co2 \in BOOLEAN
    /\ max_cost \in BOOLEAN
    /\ annual = <<>>
    /\ row = NotUsed /\ checked_row = NotUsed /\ rechecked_row = NotUsed
    /\ measure = NotUsed /\ df_blocks = NotUsed
    /\ df_price_emf = NotUsed /\ avg_price_emf = NotUsed
    /\ df_dsm_arg = NotUsed
    /\ df_dsm = NotUsed /\ combo = NotUsed /\ final_results = NotUsed
    /\ idx = NotUsed /\ blocks_lr = NotUsed /\ blocks_li = NotUsed
    /\ blocks_combo = NotUsed

\* calc_annual_potential(measure, blocks, max_co2, max_cost) for a measure
\* with retrieval frequency k.
Aggregate ==
    /\ Cardinality(DOMAIN annual) < MaxRuns
    /\ \E k \in 0 .. MaxFrequency :
          /\ k \notin DOMAIN annual
          /\ \E result \in calc_annual_potential(AnnualMeasure(k), blocks,
                                                 max_co2, max_cost) :
                annual' = annual @@ (k :> result)
    /\ UNCHANGED <<pc, blocks, flagVars, normVars, blockVars, seriesVars,
                   comboVars, runVars>>

NextAnnual == Aggregate

SpecAnnual == InitAnnual /\ [][NextAnnual]_vars

(***************************************************************************)
(* calculate_reduction_potential.py: individual cases and combinations     *)
(***************************************************************************)
\* calc_measure_individual: the frame as calc_blocks leaves it, the blocks,
\* and a row calc_annual_potential can return.
calc_measure_individual(m, df, avg, co2, cost) ==
    LET calc == calc_blocks(m, df, avg)
    IN  { [df |-> calc.df, blocks |-> calc.blocks, results |-> results] :
            results \in calc_annual_potential(m, calc.blocks, co2, cost) }

\* Mutant of SameLength: the block sizes int(length * 4) are compared.
SameBlockSize(length_lr, length_li) ==
    QuarterHours(length_lr) = QuarterHours(length_li)

\* length_lr == length_li
SameLength(length_lr, length_li) == length_lr = length_li

\* Mutant of CombineBlocks: in the two mixed branches each maximum comes
\* with the associated value of the other direction.
CombineBlocksCrossed(block_lr, block_li) ==
    IF block_lr.max_emission > block_li.max_emission
       /\ block_lr.max_cost > block_li.max_cost
    THEN block_lr
    ELSE IF block_li.max_emission > block_lr.max_emission
            /\ block_li.max_cost > block_lr.max_cost
    THEN block_li
    ELSE IF block_lr.max_emission > block_li.max_emission
            /\ block_li.max_cost > block_lr.max_cost
    THEN [max_emission |-> block_lr.max_emission,
          ass_cost |-> block_li.ass_cost,
          max_cost |-> block_li.max_cost,
          ass_emission |-> block_lr.ass_emission]
    ELSE [max_emission |-> block_li.max_emission,
          ass_cost |-> block_lr.ass_cost,
          max_cost |-> block_lr.max_cost,
          ass_emission |-> block_li.ass_emission]

\* The block of the combination for one block of each direction: the four
\* branches of the loop body.
CombineBlocks(block_lr, block_li) ==
    IF block_lr.max_emission > block_li.max_emission
       /\ block_lr.max_cost > block_li.max_cost
    THEN block_lr
    ELSE IF block_li.max_emission > block_lr.max_emission
            /\ block_li.max_cost > block_lr.max_cost
    THEN block_li
    ELSE IF block_lr.max_emission > block_li.max_emission
            /\ block_li.max_cost > block_lr.max_cost
    THEN [max_emission |-> block_lr.max_emission,
          ass_cost |-> block_lr.ass_cost,
          max_cost |-> block_li.max_cost,
          ass_emission |-> block_li.ass_emission]
    ELSE [max_emission |-> block_li.max_emission,
          ass_cost |-> block_li.ass_cost,
          max_cost |-> block_lr.max_cost,
          ass_emission |-> block_lr.ass_emission]

\* measure_combo: the new combination case of the measure.
MeasureCombo(measure_lr) ==
    [TP |-> measure_lr.TP, name |-> measure_lr.name,
     scope |-> measure_lr.scope, maximization |-> measure_lr.maximization,
     load_change |-> "combination",
     retrieval_frequency |-> measure_lr.retrieval_frequency]

\* A local data frame of blocks that does not exist (yet).
NoBlocks == <<>>

\* calc_measure_combo for a load reduction and its load increase: what it
\* can lead to. blocks_combo is NoBlocks when no combination is calculated.
calc_measure_combo(measure_lr, measure_li, df, avg, results, co2, cost) ==
    LET calc_lr == calc_blocks(measure_lr, df, avg)
        length_lr == calc_rc_length(measure_lr)
        calc_li == calc_blocks(measure_li, calc_lr.df, avg)
        length_li == calc_rc_length(measure_li)
        combined == [j \in DOMAIN calc_lr.blocks |->
                        CombineBlocks(calc_lr.blocks[j], calc_li.blocks[j])]
    IN  { [df |-> calc_li.df,
           blocks_lr |-> calc_lr.blocks,
           blocks_li |-> calc_li.blocks,
           blocks_combo |->
               IF SameLength(length_lr, length_li) THEN combined ELSE NoBlocks,
           final_results |->
               results \o <<row_lr, row_li>>
                  \o (IF SameLength(length_lr, length_li)
                      THEN <<row_combo>> ELSE <<>>)] :
            row_lr \in calc_annual_potential(measure_lr, calc_lr.blocks,
                                             co2, cost),
            row_li \in calc_annual_potential(measure_li, calc_li.blocks,
                                             co2, cost),
            row_combo \in
                (IF SameLength(length_lr, length_li)
                 THEN calc_annual_potential(MeasureCombo(measure_lr),
                                            combined, co2, cost)
                 ELSE {NotUsed}) }

\* The columns that identify the cases of one measure.
Key(m) == <<m.TP, m.name, m.scope, m.maximization, m.retrieval_frequency>>

\* df.duplicated(key columns, keep=False) for the row m of df.
Duplicated(df, m) ==
    Cardinality({j \in DOMAIN df : Key(df[j]) = Key(m)}) > 1

\* df_dsm_lr, df_dsm_li: the rows of df_dsm_combo of one load change.
DuplicatedOf(df, load_change) ==
    SelectSeq(df, LAMBDA m : Duplicated(df, m) /\ m.load_change = load_change)

\* The rows of df_dsm_li with the key of measure_lr (before .squeeze()).
MatchingIncrease(df, measure_lr) ==
    SelectSeq(DuplicatedOf(df, "load increase"),
              LAMBDA m : Key(m) = Key(measure_lr))

\* df_dsm.drop_duplicates(key columns, keep=False)
drop_duplicates(df) == SelectSeq(df, LAMBDA m : ~Duplicated(df, m))

(***************************************************************************)
(* Spec: a run of calc_reduction_potential.                                *)
(***************************************************************************)
\* The cases of the run: both load changes; retrieval cycles of 0.25 h
\* (retrieval frequency 1 or 2), of 0.25 h + 180 s and of 0.5 h.
RunRows ==
    { r \in CaseRows({"load increase", "load reduction"}, {1, 2}) :
        /\ r.catch_up_time = 0
        /\ r.retrieval_duration \in {Quarter, 2 * Quarter}
        /\ r.activation_duration \in {0, 1}
        /\ r.retrieval_duration = 2 * Quarter => r.activation_duration = 0
        /\ r.retrieval_frequency = 2 =>
              r.retrieval_duration + r.activation_duration = Quarter }

RunCases == { check_and_adapt_dsm(r) : r \in RunRows }

\* Quarter-hours of the run: the price at the average and the emission
\* factor above it, both off the average in opposite directions, the emission
\* factor at the average.
RunSeriesRows ==
    { [price |-> 1, emf |-> 3], [price |-> 3, emf |-> 0],
      [price |-> 0, emf |-> 2] }

Init ==
    /\ pc = "combo"
    /\ \E n \in 0 .. MaxMeasures : df_dsm_arg \in [1 .. n -> RunCases]
    /\ df_dsm = df_dsm_arg
    /\ \E n \in 1 .. MaxRunN : df_price_emf \in [0 .. n - 1 -> RunSeriesRows]
    /\ avg_price_emf \in AverageReferences
    /\ max_co2 \in BOOLEAN
    /\ max_cost \in BOOLEAN
    /\ combo \in BOOLEAN
    /\ final_results = <<>>
    /\ idx = 1
    /\ blocks_lr = NoBlocks /\ blocks_li = NoBlocks /\ blocks_combo = NoBlocks
    /\ measure = NotUsed /\ df_blocks = NotUsed
    /\ row = NotUsed /\ checked_row = NotUsed /\ rechecked_row = NotUsed
    /\ blocks = NotUsed /\ annual = NotUsed

\* One pass of the loop over df_dsm_lr (lines 105-116): the load increase of
\* the pair is looked up and calc_measure_combo is called.
ComboPair ==
    /\ pc = "combo"
    /\ combo
    /\ idx <= Len(DuplicatedOf(df_dsm, "load reduction"))
    /\ LET measure_lr == DuplicatedOf(df_dsm, "load reduction")[idx]
           found == MatchingIncrease(df_dsm, measure_lr)
       IN  /\ Len(found) = 1
           /\ \E out \in calc_measure_combo(measure_lr, found[1],
                            df_price_emf, avg_price_emf, final_results,
                            max_co2, max_cost) :
                 /\ df_price_emf' = out.df
                 /\ blocks_lr' = out.blocks_lr
                 /\ blocks_li' = out.blocks_li
                 /\ blocks_combo' = out.blocks_combo
                 /\ final_results' = out.final_results
    /\ idx' = idx + 1
    /\ UNCHANGED <<pc, df_dsm_arg, df_dsm, combo, avg_price_emf, flagVars,
                   blockVars, normVars, annualVars>>

\* The same pass when .squeeze() does not give one row (no load increase
\* with the key, or several): calc_measure_combo appends the row of the load
\* reduction, then calc_load_change(measure_li) raises ValueError on the
\* truth value of a Series.
ComboPairRaises ==
    /\ pc = "combo"
    /\ combo
    /\ idx <= Len(DuplicatedOf(df_dsm, "load reduction"))
    /\ LET measure_lr == DuplicatedOf(df_dsm, "load reduction")[idx]
           found == MatchingIncrease(df_dsm, measure_lr)
       IN  /\ Len(found) # 1
           /\ \E out \in calc_measure_individual(measure_lr, df_price_emf,
                            avg_price_emf, max_co2, max_cost) :
                 /\ df_price_emf' = out.df
                 /\ blocks_lr' = out.blocks
                 /\ final_results' = Append(final_results, out.results)
    /\ blocks_li' = NoBlocks
    /\ blocks_combo' = NoBlocks
    /\ pc' = "raised"
    /\ UNCHANGED <<idx, df_dsm_arg, df_dsm, combo, avg_price_emf, flagVars,
                   blockVars, normVars, annualVars>>

\* The end of the combination part (lines 96, 119-120): the cases that were
\* candidates for a combination are dropped from df_dsm.
EndCombo ==
    /\ pc = "combo"
    /\ combo => idx > Len(DuplicatedOf(df_dsm, "load reduction"))
    /\ df_dsm' = IF combo THEN drop_duplicates(df_dsm) ELSE df_dsm
    /\ pc' = "rest"
    /\ idx' = 1
    /\ UNCHANGED <<df_dsm_arg, combo, final_results, seriesVars, flagVars,
                   blockVars, normVars, annualVars, comboVars>>

\* One pass of the loop over the remaining cases (lines 124-128).
Individual ==
    /\ pc = "rest"
    /\ idx <= Len(df_dsm)
    /\ \E out \in calc_measure_individual(df_dsm[idx], df_price_emf,
                     avg_price_emf, max_co2, max_cost) :
          /\ df_price_emf' = out.df
          /\ df_blocks' = out.blocks
          /\ final_results' = Append(final_results, out.results)
    /\ measure' = df_dsm[idx]
    /\ idx' = idx + 1
    /\ UNCHANGED <<pc, df_dsm_arg, df_dsm, combo, avg_price_emf, flagVars,
                   normVars, annualVars, comboVars>>

\* return final_results (line 130)
Return ==
    /\ pc = "rest"
    /\ idx > Len(df_dsm)
    /\ pc' = "done"
    /\ UNCHANGED <<idx, df_dsm_arg, df_dsm, combo, final_results, seriesVars,
                   flagVars, blockVars, normVars, annualVars, comboVars>>

Next == ComboPair \/ ComboPairRaises \/ EndCombo \/ Individual \/ Return

Spec == Init /\ [][Next]_vars

(***************************************************************************)
(* Claims about the normalization (SpecNorm)                               *)
(***************************************************************************)
OnGrid(x) == x >= 0 /\ x % Quarter = 0

CycleUnits(r) == r.retrieval_duration + r.catch_up_time + r.activation_duration

\* The row returned for a raw row without missing values.
Returned == pc \in {"checked", "rechecked"} /\ row.nan = {} /\ ~Raised(checked_row)

\* C1: in the row returned by check_and_adapt_dsm the retrieval duration, the
\* catch-up time and the activation duration are each a non-negative multiple
\* of 0.25 h, and (their sum) * retrieval frequency <= 8760 h.
C1_NormalizedInvariant ==
    Returned =>
        /\ OnGrid(checked_row.retrieval_duration)
        /\ OnGrid(checked_row.catch_up_time)
        /\ OnGrid(checked_row.activation_duration)
        /\ CycleUnits(checked_row) * checked_row.retrieval_frequency
              <= HoursPerYear * UnitsPerHour

\* C2: normalization is idempotent: check_and_adapt_dsm applied to a row it
\* returned gives back that row, equal in every field.
C2_Idempotent ==
    (pc = "rechecked" /\ row.nan = {}) => rechecked_row = checked_row


(***************************************************************************)
(* Claims about the reductions per quarter-hour and the blocks (SpecBlocks)*)
(***************************************************************************)
\* The window length w = retrievalDuration * 4 of the case.
WindowLength == measure.retrieval_duration \div Quarter

\* loadChangeMWh: power / 1000 / 4, negated for a load reduction.
LoadChangeMWh ==
    LET sign == IF measure.load_change = "load reduction" THEN -1 ELSE 1
    IN  sign * (measure.power.num \div (4000 * measure.power.den))

\* Sum over i in t .. t+w-1 of loadChangeMWh * series[i].obj.
RECURSIVE ValuedWindow(_, _, _)
ValuedWindow(column, t, w) ==
    IF w = 0 THEN 0
    ELSE LoadChangeMWh * df_price_emf[t + w - 1][column]
            + ValuedWindow(column, t, w - 1)

WindowInside(t) == t + WindowLength - 1 <= Length(df_price_emf) - 1

\* C3: for every start index t whose window lies inside the series, the
\* reduction of each objective is -(sum over the window of loadChangeMWh *
\* series[i].obj) + loadChangeMWh * avg_obj * w, with the average emission
\* factor for the emission objective and the average price for the price.
C3_WindowFormula ==
    pc = "blocks" =>
        \A t \in DOMAIN df_price_emf :
            WindowInside(t) =>
                /\ df_price_emf[t].emission_reduction =
                      (0 - ValuedWindow("emf", t, WindowLength))
                        + LoadChangeMWh * avg_price_emf[2] * WindowLength
                /\ df_price_emf[t].price_reduction =
                      (0 - ValuedWindow("price", t, WindowLength))
                        + LoadChangeMWh * avg_price_emf[1] * WindowLength

\* A load reduction with a window of two quarter-hours inside the series and
\* reductions that differ between the objectives.
C3_Witness ==
    /\ pc = "blocks"
    /\ measure.load_change = "load reduction"
    /\ WindowLength = 2
    /\ \E t \in DOMAIN df_price_emf :
          /\ WindowInside(t)
          /\ df_price_emf[t].emission_reduction > 0
          /\ df_price_emf[t].price_reduction < 0

\* C4: a start index whose window runs past the last index of the series
\* has emission reduction 0 and cost reduction 0.
C4_OverrunIsZero ==
    pc = "blocks" =>
        \A t \in DOMAIN df_price_emf :
            ~WindowInside(t) =>
                /\ df_price_emf[t].emission_reduction = 0
                /\ df_price_emf[t].price_reduction = 0

\* The block size int(L * 4) and the segment of block j.
BlockSize == (calc_rc_length(measure) * 4) \div UnitsPerHour

Segment(j) ==
    {t \in DOMAIN df_price_emf : j * BlockSize <= t /\ t < (j + 1) * BlockSize}

\* C5: in every block max_emission is >= every emission reduction of the
\* segment and ass_cost is the cost reduction at an index of the segment
\* where the emission reduction equals max_emission; symmetrically for
\* max_cost and ass_emission.
C5_BlockMaximum ==
    pc = "blocks" =>
        \A j \in DOMAIN df_blocks :
            /\ \A t \in Segment(j) :
                  /\ df_blocks[j].max_emission >= df_price_emf[t].emission_reduction
                  /\ df_blocks[j].max_cost >= df_price_emf[t].price_reduction
            /\ \E t \in Segment(j) :
                  /\ df_price_emf[t].emission_reduction = df_blocks[j].max_emission
                  /\ df_price_emf[t].price_reduction = df_blocks[j].ass_cost
            /\ \E t \in Segment(j) :
                  /\ df_price_emf[t].price_reduction = df_blocks[j].max_cost
                  /\ df_price_emf[t].emission_reduction = df_blocks[j].ass_emission

\* A block of several quarter-hours whose two maxima lie at different
\* indices: the associated values are below the independent maxima.
C5_Witness ==
    /\ pc = "blocks"
    /\ \E j \in DOMAIN df_blocks :
          /\ Cardinality(Segment(j)) >= 2
          /\ df_blocks[j].ass_cost < df_blocks[j].max_cost
          /\ df_blocks[j].ass_emission < df_blocks[j].max_emission


(***************************************************************************)
(* Claims about the annual potential (SpecAnnual)                          *)
(***************************************************************************)
\* S is a choice of the k blocks with the largest value of a column (all
\* blocks if there are fewer than k).
LargestK(S, k, column) ==
    /\ S \subseteq DOMAIN blocks
    /\ Cardinality(S) = Min(k, Cardinality(DOMAIN blocks))
    /\ \A i \in S : \A j \in (DOMAIN blocks) \ S :
          blocks[i][column] >= blocks[j][column]

\* The blocks of S whose value of a column is > 0.
PositiveOf(S, column) == {i \in S : blocks[i][column] > 0}

RECURSIVE SumOfBlocks(_, _)
SumOfBlocks(S, column) ==
    IF S = {} THEN 0
    ELSE LET i == CHOOSE x \in S : TRUE
         IN  blocks[i][column] + SumOfBlocks(S \ {i}, column)

\* The pair (maximum, associated) is the sum over the positive blocks among
\* some k largest blocks of a column, the associated value over the same blocks.
SumsOfLargestK(maximum, associated, k, column, other) ==
    \E S \in SUBSET (DOMAIN blocks) :
        /\ LargestK(S, k, column)
        /\ maximum = Number(SumOfBlocks(PositiveOf(S, column), column))
        /\ associated = Number(SumOfBlocks(PositiveOf(S, column), other))

NoPositive(column) == \A i \in DOMAIN blocks : blocks[i][column] <= 0

\* C6: with the emission objective requested the row holds the sum of the
\* max_emission values > 0 among the k blocks with the largest max_emission
\* and the sum of the ass_cost of exactly those blocks; the cost objective is
\* symmetric; with k = 0 or no positive block the pair is (0, 0).
C6_TopKSums ==
    \A k \in DOMAIN annual :
        /\ max_co2 =>
              /\ SumsOfLargestK(annual[k].max_emission, annual[k].ass_cost,
                                k, "max_emission", "ass_cost")
              /\ (k = 0 \/ NoPositive("max_emission")) =>
                    /\ annual[k].max_emission = Number(0)
                    /\ annual[k].ass_cost = Number(0)
        /\ max_cost =>
              /\ SumsOfLargestK(annual[k].max_cost, annual[k].ass_emission,
                                k, "max_cost", "ass_emission")
              /\ (k = 0 \/ NoPositive("max_cost")) =>
                    /\ annual[k].max_cost = Number(0)
                    /\ annual[k].ass_emission = Number(0)

\* Both objectives requested, more blocks than the frequency, and among the
\* k largest a block that is discarded for its maximum of 0: its associated
\* cost of -1 is not in the sum.
C6_Witness ==
    /\ max_co2 /\ max_cost
    /\ \E k \in DOMAIN annual :
          /\ k >= 2
          /\ Cardinality(DOMAIN blocks) > k
          /\ \E i \in DOMAIN blocks : blocks[i].max_emission = 0
          /\ \E i \in DOMAIN blocks : blocks[i].max_emission = 3
          /\ annual[k].max_emission = Number(3)
          /\ annual[k].ass_cost = Number(0)

\* C7: for frequencies k1 <= k2 on the same blocks the annual emission
\* reduction (the annual cost reduction) for k2 is >= the one for k1.
C7_MonotonicInFrequency ==
    \A k1, k2 \in DOMAIN annual :
        k1 <= k2 =>
            /\ max_co2 =>
                  annual[k2].max_emission.value >= annual[k1].max_emission.value
            /\ max_cost =>
                  annual[k2].max_cost.value >= annual[k1].max_cost.value

\* Two frequencies where the larger one adds a positive block, on blocks
\* that also hold a negative maximum.
C7_Witness ==
    /\ max_co2 /\ max_cost
    /\ \E i \in DOMAIN blocks : blocks[i].max_emission < 0
    /\ \E k1, k2 \in DOMAIN annual :
          /\ k1 < k2
          /\ annual[k2].max_emission.value > annual[k1].max_emission.value
          /\ annual[k2].max_cost.value > annual[k1].max_cost.value
          /\ k2 = Cardinality(DOMAIN blocks)


(***************************************************************************)
(* Claims about a run of calc_reduction_potential (Spec)                   *)
(***************************************************************************)
\* The rows a step appends to final_results.
Appended == SubSeq(final_results', Len(final_results) + 1, Len(final_results'))

\* The step is a call of calc_measure_combo that returns.
ComboCall == pc = "combo" /\ idx' = idx + 1

\* The pair of the call: the load reduction and its load increase.
PairReduction == DuplicatedOf(df_dsm, "load reduction")[idx]

PairIncrease == MatchingIncrease(df_dsm, PairReduction)[1]

\* C8: calc_measure_combo appends exactly two rows (reduction, then increase)
\* and no combination row if the full cycle lengths of the pair differ, and
\* exactly three rows (reduction, increase, combination) if they are equal.
C8_RowsPerPair ==
    [][ComboCall =>
          /\ SubSeq(final_results', 1, Len(final_results)) = final_results
          /\ Len(Appended) =
                IF CycleUnits(PairReduction) # CycleUnits(PairIncrease)
                THEN 2 ELSE 3
          /\ Appended[1].load_change = "load reduction"
          /\ Appended[2].load_change = "load increase"
          /\ Len(Appended) = 3 => Appended[3].load_change = "combination"
          /\ \A n \in 1 .. Len(Appended) :
                /\ Appended[n].TP = PairReduction.TP
                /\ Appended[n].name = PairReduction.name
      ]_vars

\* A pair was calculated whose cycle lengths differ by an activation
\* duration of 180 s only (0.25 h against 0.3 h, the same block size): two
\* rows, no combination.
C8_Witness ==
    /\ pc = "combo"
    /\ idx = 2
    /\ Len(final_results) = 2
    /\ blocks_combo = NoBlocks
    /\ DOMAIN blocks_lr = DOMAIN blocks_li
    /\ \E a, b \in DOMAIN df_dsm :
          /\ Key(df_dsm[a]) = Key(df_dsm[b])
          /\ CycleUnits(df_dsm[a]) = Quarter
          /\ CycleUnits(df_dsm[b]) = Quarter + 1

Max(a, b) == IF a >= b THEN a ELSE b

\* C9: every block of the combination holds, per objective, the larger of
\* the maxima of the two directions, also when the directions tie.
C9_CombinedIsMaximum ==
    \A j \in DOMAIN blocks_combo :
        /\ blocks_combo[j].max_emission =
              Max(blocks_lr[j].max_emission, blocks_li[j].max_emission)
        /\ blocks_combo[j].max_cost =
              Max(blocks_lr[j].max_cost, blocks_li[j].max_cost)

IsNumber(field) == "value" \in DOMAIN field

\* C10: in every result row the two fields of an objective that was not
\* requested hold the marker 'NaN', never 0, and the two fields of a
\* requested objective hold numbers, never the marker.
C10_NotComputedMarker ==
    \A n \in DOMAIN final_results :
        /\ IF max_co2
           THEN /\ IsNumber(final_results[n].max_emission)
                /\ IsNumber(final_results[n].ass_cost)
           ELSE /\ final_results[n].max_emission = NaN
                /\ final_results[n].ass_cost = NaN
        /\ IF max_cost
           THEN /\ IsNumber(final_results[n].max_cost)
                /\ IsNumber(final_results[n].ass_emission)
           ELSE /\ final_results[n].max_cost = NaN
                /\ final_results[n].ass_emission = NaN

\* A finished run with only the emission objective requested, a combination
\* row and an individual row; a requested field is a computed 0.
C10_Witness ==
    /\ pc = "done"
    /\ max_co2 /\ ~max_cost
    /\ \E n \in DOMAIN final_results :
          /\ final_results[n].load_change = "combination"
          /\ final_results[n].max_cost = NaN
    /\ \E n \in DOMAIN final_results :
          /\ final_results[n].load_change = "load increase"
          /\ final_results[n].max_emission = Number(0)
          /\ final_results[n].ass_emission = NaN

\* The columns of a result row that identify the case it belongs to.
Identity(m) == <<m.TP, m.name, m.scope, m.maximization, m.load_change>>

\* The number of positions of a sequence whose identity is id.
CountOf(seq, id) == Cardinality({n \in DOMAIN seq : Identity(seq[n]) = id})

\* The combinable pairs of the input: a load reduction and a load increase
\* with the same key and the same cycle length.
CombinablePairs ==
    { <<a, b>> \in (DOMAIN df_dsm_arg) \X (DOMAIN df_dsm_arg) :
        /\ df_dsm_arg[a].load_change = "load reduction"
        /\ df_dsm_arg[b].load_change = "load increase"
        /\ Key(df_dsm_arg[a]) = Key(df_dsm_arg[b])
        /\ CycleUnits(df_dsm_arg[a]) = CycleUnits(df_dsm_arg[b]) }

\* C11: the run returns, and it returns exactly one individual row for each
\* input case (none missing, none duplicated) plus exactly one combination
\* row for each combinable pair, also when several cases share a key.
C11_OneRowPerCase ==
    /\ pc # "raised"
    /\ pc = "done" =>
          /\ \A n \in DOMAIN df_dsm_arg :
                CountOf(final_results, Identity(df_dsm_arg[n]))
                   = CountOf(df_dsm_arg, Identity(df_dsm_arg[n]))
          /\ Cardinality({n \in DOMAIN final_results :
                             final_results[n].load_change = "combination"})
                = IF combo THEN Cardinality(CombinablePairs) ELSE 0
          /\ Len(final_results)
                = Len(df_dsm_arg)
                    + (IF combo THEN Cardinality(CombinablePairs) ELSE 0)

(***************************************************************************)
(* Further claims about the normalization (SpecNorm)                       *)
(***************************************************************************)
\* C12: normalization never ends in an error: for every raw row with
\* non-negative or missing power, durations and frequency, a retrieval
\* duration of 0 with a longer cycle and the all-zero row included,
\* check_and_adapt_dsm returns a normalized row.
C12_NeverRaises ==
    pc \in {"checked", "rechecked"} => ~Raised(checked_row)

(***************************************************************************)
(* Further claims about a run of calc_reduction_potential (Spec)           *)
(***************************************************************************)
\* The price and emission factor columns of the series.
PriceEmf(df) == [t \in DOMAIN df |-> [price |-> df[t].price, emf |-> df[t].emf]]

\* The rows the case m can get when it is calculated on its own, on a series
\* that holds nothing but prices and emission factors.
RowsAlone(m) ==
    { out.results :
        out \in calc_measure_individual(m, PriceEmf(df_price_emf),
                                        avg_price_emf, max_co2, max_cost) }

\* The step is a pass of the loop over the remaining cases.
IndividualCall == pc = "rest" /\ idx' = idx + 1

\* The step is a call of calc_measure_combo that raises.
ComboRaise == pc = "combo" /\ pc' = "raised"

\* C13: the result row of a case depends only on the case, the prices and
\* emission factors of the series, the average reference and the objective
\* flags: whatever cases were calculated before on the shared frame, the row
\* is one the case gets on its own; the prices and emission factors of the
\* frame never change.
C13_RowIndependent ==
    [][/\ PriceEmf(df_price_emf') = PriceEmf(df_price_emf)
       /\ IndividualCall => Appended[1] \in RowsAlone(df_dsm[idx])
       /\ ComboRaise => Appended[1] \in RowsAlone(PairReduction)
       /\ ComboCall =>
             /\ Appended[1] \in RowsAlone(PairReduction)
             /\ Appended[2] \in RowsAlone(PairIncrease)
      ]_vars

\* A case was calculated on a frame whose reduction columns held the values
\* of another case with a longer retrieval duration, and got a row with a
\* reduction that is not 0.
C13_Witness ==
    /\ pc = "rest"
    /\ idx = 3
    /\ Len(final_results) = 2
    /\ df_dsm[1].retrieval_duration = 2 * Quarter
    /\ df_dsm[2].retrieval_duration = Quarter
    /\ df_dsm[1].load_change # df_dsm[2].load_change
    /\ final_results[2].max_emission \in {Number(v) : v \in 1 .. 100}
    /\ final_results[2].max_cost \in {Number(v) : v \in 1 .. 100}

\* No step of the run is possible: it has returned, or an exception has
\* left calc_reduction_potential. In every other position one of the loops
\* can make a pass or end.
Halted == pc \in {"done", "raised"}

\* The position of the run; every step of Next changes it.
position == <<pc, idx>>

\* The run goes on: it has not halted and the position changes (a loop
\* makes a pass, ends, or the function returns or raises).
Advance ==
    /\ ~Halted
    /\ pc' \in {"combo", "rest", "done", "raised"}
    /\ idx' \in {1, idx, idx + 1}

\* The run under the scheduling of a sequential program: it goes on until it
\* has halted.
SpecRun == Spec /\ WF_position(Advance)

\* The block size int(length * 4) of a case.
BlockSizeOf(m) == QuarterHours(calc_rc_length(m))

\* ceil(n / d)
CeilDiv(n, d) == (n + d - 1) \div d

\* The block size of every case of the run is >= 1, and the blocks of the
\* case calculated last are ceil(N / block size) many.
BlockLoopEnds ==
    /\ \A n \in DOMAIN df_dsm_arg : BlockSizeOf(df_dsm_arg[n]) >= 1
    /\ (pc \in {"rest", "done"} /\ idx > 1) =>
          Length(df_blocks)
             = CeilDiv(Length(df_price_emf), BlockSizeOf(measure))

\* Every input case has a row in the returned results.
CompleteResults ==
    /\ pc = "done"
    /\ \A n \in DOMAIN df_dsm_arg :
          CountOf(final_results, Identity(df_dsm_arg[n])) >= 1

\* C14: for every series and every set of normalized cases the run
\* terminates with a complete result set; the block size int(L * 4) is >= 1
\* for every normalized case, so that the partition loop makes
\* ceil(N / block size) passes and ends.
C14_RunTerminates == []BlockLoopEnds /\ <>CompleteResults

(***************************************************************************)
(* Claims about the steps of the normalization (SpecNorm)                  *)
(***************************************************************************)
\* The raw row with its missing values read as 0.
Raw == fillna_dict(row)

\* The rational p equals the rational q times n / d.
EqualsScaled(p, q, n, d) == p.num * (q.den * d) = q.num * n * p.den

CheckReturned == pc \in {"checked", "rechecked"} /\ ~Raised(checked_row)

\* C15: when the raw total duration is <= 0.25 h, the returned row has
\* retrieval duration 0.25 h, catch-up time 0 and activation duration 0, and
\* its power is the raw power times (raw retrieval duration / 0.25).
C15_ShortCycleFloor ==
    (CheckReturned /\ CycleUnits(Raw) <= Quarter) =>
        /\ checked_row.retrieval_duration = Quarter
        /\ checked_row.catch_up_time = 0
        /\ checked_row.activation_duration = 0
        /\ EqualsScaled(checked_row.power, Raw.power,
                        Raw.retrieval_duration, Quarter)

\* 8760 h in time units.
YearUnits == HoursPerYear * UnitsPerHour

\* C16: with duration the sum of the three duration fields of the returned
\* row: if duration * raw frequency > 8760 h the retrieval frequency is
\* floor(8760 / duration), otherwise it is the raw frequency; the frequency
\* is never increased.
C16_FrequencyCap ==
    CheckReturned =>
        /\ checked_row.retrieval_frequency =
              IF CycleUnits(checked_row) * Raw.retrieval_frequency > YearUnits
              THEN YearUnits \div CycleUnits(checked_row)
              ELSE Raw.retrieval_frequency
        /\ checked_row.retrieval_frequency <= Raw.retrieval_frequency

\* C17: normalization preserves the shifted energy of a cycle: returned
\* power * returned retrieval duration = raw power * raw retrieval duration
\* (the value before any rounding); a raw retrieval duration on the 0.25 h
\* grid, with a total duration > 0.25 h, leaves the power unchanged.
C17_EnergyPreserved ==
    CheckReturned =>
        /\ checked_row.power.num * checked_row.retrieval_duration * Raw.power.den
              = Raw.power.num * Raw.retrieval_duration * checked_row.power.den
        /\ (OnGrid(Raw.retrieval_duration) /\ CycleUnits(Raw) > Quarter) =>
              checked_row.power.num * Raw.power.den
                 = Raw.power.num * checked_row.power.den

\* A retrieval duration just above 0.25 h was rounded up to 0.5 h and the
\* power of 4000 kW became smaller by the ratio of the two durations.
C17_Witness ==
    /\ pc = "checked"
    /\ Raw.retrieval_duration = Quarter + 1
    /\ Raw.power = [num |-> 4000, den |-> 1]
    /\ ~Raised(checked_row)
    /\ checked_row.retrieval_duration = 2 * Quarter
    /\ checked_row.power # Raw.power
    /\ EqualsScaled(checked_row.power, Raw.power, Quarter + 1, 2 * Quarter)

(***************************************************************************)
(* Further claims about the blocks (SpecBlocks)                            *)
(***************************************************************************)
\* L = (retrieval duration + catch-up time + activation duration) * 4 is
\* CycleUnits(measure) / Quarter; the comparisons below are multiplied by
\* Quarter.
\* The indices j*L .. min((j+1)*L, N) - 1 of the series.
PartitionSegment(j) ==
    {t \in DOMAIN df_price_emf :
        /\ j * CycleUnits(measure) <= t * Quarter
        /\ t * Quarter <= Min((j + 1) * CycleUnits(measure),
                              Length(df_price_emf) * Quarter) - Quarter}

\* v is the largest value of a column on the indices S.
LargestOn(v, S, column) ==
    /\ \E t \in S : df_price_emf[t][column] = v
    /\ \A t \in S : df_price_emf[t][column] <= v

\* C18: max_in_block partitions [0, N) exactly: with L the cycle length of
\* the case in quarter-hours it gives ceil(N / L) blocks, block j is computed
\* from exactly the indices j*L .. min((j+1)*L, N) - 1, every index belongs
\* to exactly one block, and only the last block may be shorter than L.
C18_ExactPartition ==
    pc = "blocks" =>
        /\ Length(df_blocks) * CycleUnits(measure)
              >= Length(df_price_emf) * Quarter
        /\ (Length(df_blocks) - 1) * CycleUnits(measure)
              < Length(df_price_emf) * Quarter
        /\ \A j \in DOMAIN df_blocks :
              /\ LargestOn(df_blocks[j].max_emission, PartitionSegment(j),
                           "emission_reduction")
              /\ LargestOn(df_blocks[j].max_cost, PartitionSegment(j),
                           "price_reduction")
              /\ j < Length(df_blocks) - 1 =>
                    Cardinality(PartitionSegment(j)) * Quarter
                       = CycleUnits(measure)
        /\ \A t \in DOMAIN df_price_emf :
              Cardinality({j \in DOMAIN df_blocks : t \in PartitionSegment(j)})
                 = 1

(***************************************************************************)
(* Further claims about the annual potential (SpecAnnual)                  *)
(***************************************************************************)
\* The first k blocks by descending value of a column, blocks with equal
\* values in the order of their index.
EarliestLargestK(k, column) ==
    {i \in DOMAIN blocks :
        Cardinality({j \in DOMAIN blocks :
                        \/ blocks[j][column] > blocks[i][column]
                        \/ /\ blocks[j][column] = blocks[i][column]
                           /\ j < i}) < k}

EmissionPair(block) == <<block.max_emission, block.ass_cost>>

CostPair(block) == <<block.max_cost, block.ass_emission>>

\* C20: in every block of the combination the pair (max. emission,
\* ass. cost) is the pair of one direction's block with the same index, and
\* so is the pair (max. cost, ass. emission): a maximum never stands with the
\* associated value of the other direction, in any of the four branches.
C20_PairsCopiedWhole ==
    \A j \in DOMAIN blocks_combo :
        /\ EmissionPair(blocks_combo[j])
              \in {EmissionPair(blocks_lr[j]), EmissionPair(blocks_li[j])}
        /\ CostPair(blocks_combo[j])
              \in {CostPair(blocks_lr[j]), CostPair(blocks_li[j])}

\* A block of the combination that takes the emission pair of the load
\* reduction and the cost pair of the load increase, the directions
\* differing in all four values.
C20_Witness ==
    \E j \in DOMAIN blocks_combo :
        /\ blocks_lr[j].max_emission > blocks_li[j].max_emission
        /\ blocks_li[j].max_cost > blocks_lr[j].max_cost
        /\ blocks_lr[j].ass_cost # blocks_li[j].ass_cost
        /\ blocks_lr[j].ass_emission # blocks_li[j].ass_emission
        /\ EmissionPair(blocks_combo[j]) = EmissionPair(blocks_lr[j])
        /\ CostPair(blocks_combo[j]) = CostPair(blocks_li[j])

(***************************************************************************)
(* Claims about the rows of pairs (Spec)                                   *)
(***************************************************************************)
\* The ways to give every input case a result row of its own.
RowOfCase ==
    {f \in [DOMAIN df_dsm_arg -> DOMAIN final_results] :
        \A a, b \in DOMAIN df_dsm_arg : a # b => f[a] # f[b]}

\* C21: enabling the combination only adds combination rows: every row of a
\* load reduction or load increase that the run without combinations
\* returns (the row the case gets on its own) is returned with the same
\* values by the run with combinations, whether or not the case belongs to
\* a pair and whether or not the pair is combinable.
C21_ComboOnlyAddsRows ==
    (combo /\ Halted) =>
        /\ pc = "done"
        /\ \E f \in RowOfCase :
              \A n \in DOMAIN df_dsm_arg :
                 final_results[f[n]] \in RowsAlone(df_dsm_arg[n])

\* A combination row stands behind the rows of its pair: calc_measure_combo
\* appends the row of the load reduction, of the load increase and of the
\* combination one after the other.
CombinationRows ==
    {n \in DOMAIN final_results : final_results[n].load_change = "combination"}

\* C22: for every combinable pair and every requested objective the maximum
\* reduction of the combination row (max. emission, max. cost) is >= the same
\* value of the row of the load reduction and of the row of the load increase.
C22_ComboAtLeastEach ==
    \A n \in CombinationRows :
        /\ max_co2 =>
              /\ final_results[n].max_emission.value
                    >= final_results[n - 2].max_emission.value
              /\ final_results[n].max_emission.value
                    >= final_results[n - 1].max_emission.value
        /\ max_cost =>
              /\ final_results[n].max_cost.value
                    >= final_results[n - 2].max_cost.value
              /\ final_results[n].max_cost.value
                    >= final_results[n - 1].max_cost.value

(***************************************************************************)
(* Claims about the normalization and the blocks of a year (SpecNorm)      *)
(***************************************************************************)
\* The number of quarter-hours of a year of 365 and of 366 days.
YearLengths == {365 * 24 * 4, 366 * 24 * 4}

\* The number of blocks max_in_block gives for a case on a series of n
\* quarter-hours.
BlocksOfYear(m, n) == range_len(n, QuarterHours(calc_rc_length(m)))

\* C23: for every normalized case and a series of a full year the retrieval
\* frequency of the case is <= the number of blocks max_in_block gives for
\* it, although the frequency is capped for the adapted activation duration
\* and the block length is taken from the durations stored in the row.
C23_FrequencyFitsBlocks ==
    CheckReturned =>
        \A n \in YearLengths :
            checked_row.retrieval_frequency <= BlocksOfYear(checked_row, n)

=============================================================================
